---- MODULE Spec2Model ----
(***************************************************************************)
(* streamem: one topic of the shared-memory frame bus (src/src/memory.py). *)
(* One publisher process (the publishing thread calling SharedFrame.write  *)
(* and the control listener thread SharedFrame.dsync) and NumSubs          *)
(* subscriber processes, each with a control thread (signin / signout, as  *)
(* driven by Client.request / Client.close) and a worker thread that calls *)
(* SharedFrame.read in a loop (Client.retrive).                            *)
(*                                                                         *)
(* The frame region holds two cells so that a copy of it is not atomic;    *)
(* publication n carries payload <<n, n>> and timestamp n, so the value    *)
(* found in a cell or in the timestamp region names the publication that   *)
(* wrote it.  Publication 0 is the zero-filled content of a fresh region.  *)
(***************************************************************************)
EXTENDS Integers, Sequences, FiniteSets, TLC

\* ------------------------------------------------------------------ bounds
NumSubs == 2
MaxPub == 2
MaxRank == 4
MaxReads == 3
MaxBuf == 2
MaxStale == 2
MaxSignin == 2

\* --------------------------------------------------------------- constants
\* MessageQueue(self.q_name, max_messages=1, ...)
MaxMessages == 1
\* stm.to_bytes(8, "little")
StmBytes == 8
\* self._crea_mem(self.mat_name, 40)
MatBytes == 40
\* if not buf: buf = 10
DefaultBuf == 10

Subs == 1..NumSubs
Pubs == 0..MaxPub
Cells == 1..2

VARIABLES
    system,     \* platform.system(): "Linux" or "Darwin"
    ram,        \* frame region, one publication tag per cell
    stm,        \* timestamp region
    cnt,        \* reader counter region
    ram_sem,    \* count of the frame semaphore ram-sem-<topic>
    cnt_sem,    \* count of the counter semaphore cnt-sem-<topic>
    named,      \* named[k]: the name sem-<topic>-<k> exists
    semv,       \* semv[k]: count of the wake semaphore created for k
    sems,       \* publisher's registry self.sems: its keys in insertion order
    sems_lock,  \* publisher's registry mutex: "free", "writer" or "listener"
    mq,         \* control channel: messages in flight
    wpc,        \* publishing thread: position in write
    wkeys,      \* publishing thread: keys of the snapshot still to visit
    npub,       \* publications started (the current publication's number)
    wdone,      \* publications completed (write has returned)
    lpc,        \* listener thread: position in dsync
    lmsg,       \* listener thread: r_id of the message being handled
    cpc,        \* subscriber control thread: position in signin / signout
    rsems,      \* subscriber's own self.sems: holds a handle for its id
    pc,         \* subscriber worker: position in read
    rstm,       \* subscriber worker: local stm
    rdata,      \* subscriber worker: cells of data.copy() made so far
    last,       \* timestamp returned by the subscriber's last read that
                \* returned while it was signed in, -1 when there is none
    quiet,      \* the read in progress was called with the publisher idle,
                \* and no publication has started since
    sin,        \* wdone when subscriber-side signin returned, while signed in
    wdata,      \* publishing thread: the data handed to write
    wstm,       \* publishing thread: the timestamp handed to write
    decl,       \* the shape and dtype the publisher is constructed with
    mat,        \* metadata region: its bytes, <<>> while the region does not exist
    mat_sem,    \* count of the metadata semaphore mat-sem-<topic>, -1 while
                \* the name does not exist
    ppc,        \* publisher's construction: position in __init__ (mode "w")
    spc,        \* subscriber's construction: position in __init__ (mode "r")
    got,        \* subscriber's construction: what _deserialize returned
    left,       \* what was under the topic's names before the publisher's
                \* construction: the semaphores' counts (-1: none), the counter
    buf,        \* Client.request(model, buf): the buf argument, 0 for None
    concat,     \* Client: self.concat.get(model, None)
    res,        \* Client: the ring self.res[model], oldest entry first
    update,     \* Client: the lock self.update[model] is locked
    tpc,        \* Client worker: position in retrive
    tgot,       \* Client worker: the (data, stm) its read returned
    nread,      \* Client worker: reads that have returned
    upc,        \* consumer: position in latest
    ret,        \* consumer: what its last latest returned
    hist,       \* every entry ever put into the ring, in order
    mark,       \* Len(hist) when the last latest returned, -1 when there is none
    obj,        \* obj[k]: which semaphore object is (or was last) under the name
                \* sem-<topic>-<k>: 0 is one that existed before any signin,
                \* n the n-th the listener created
    reg,        \* reg[k]: the object the publisher's registry holds for k, -1: none
    hnd         \* hnd[s]: the object subscriber s holds in its self.sems, -1: none

pubvars == <<system, ram, stm, cnt, ram_sem, cnt_sem, named, semv, sems, sems_lock, mq>>
wvars == <<wpc, wkeys, npub, wdone, wdata, wstm>>
lvars == <<lpc, lmsg>>
svars == <<cpc, rsems, pc, rstm, rdata, last, quiet, sin>>
mvars == <<decl, mat, mat_sem, ppc, spc, got, left>>
rvars == <<pubvars, wvars, lvars, svars>>
cvars == <<buf, concat, res, update, tpc, tgot, nread, upc, ret, hist, mark>>
ovars == <<obj, reg, hnd>>
vars == <<rvars, mvars, cvars, ovars>>

\* ----------------------------------------------------------------- helpers
\* The payload and timestamp the ingest hands to write for publication n.
Payload(n) == [i \in Cells |-> n]
Stamp(n) == n

\* CommMech: the POSIX queue holds max_messages; the Darwin fallback is an
\* unbounded queue.Queue fed by the per-connection handlers.
QueueFull == system # "Darwin" /\ Len(mq) >= MaxMessages

\* Variant: the two command words exchanged.
MsgFlipped(cmd, k) == [command |-> IF cmd = "signin" THEN "signout" ELSE "signin", r_id |-> k]

Msg(cmd, k) == [command |-> cmd, r_id |-> k]

InSeq(k, q) == \E i \in 1..Len(q) : q[i] = k

\* dict insertion: a key already present keeps its place.
DictPut(q, k) == IF InSeq(k, q) THEN q ELSE Append(q, k)

\* stm.to_bytes(8, "little"): byte i of the little-endian encoding.
RECURSIVE ShiftRight(_, _)
ShiftRight(t, i) == IF i = 0 THEN t ELSE ShiftRight(t \div 256, i - 1)

\* Variant: an encoder that keeps one bit of each byte.
ToBytesNarrow(t) == [i \in 1..StmBytes |-> ShiftRight(t, i - 1) % 2]

ToBytes(t) == [i \in 1..StmBytes |-> ShiftRight(t, i - 1) % 256]

\* stm.to_bytes(8, "little") encodes only an unsigned integer that fits in
\* StmBytes bytes.
Encodable(t) == t >= 0 /\ ShiftRight(t, StmBytes) = 0

\* Timestamps that to_bytes cannot encode: a negative one stands for all.
BadStamps == {-1}

\* int.from_bytes(self.stm[:8], "little"), from the most significant byte down.
RECURSIVE FromBytesUpTo(_, _)
FromBytesUpTo(b, i) == IF i > StmBytes THEN 0 ELSE b[i] + 256 * FromBytesUpTo(b, i + 1)

\* Variant: a decoder that starts one byte late (self.stm[1:8]).
FromBytesSkipFirst(b) == FromBytesUpTo(b, 2)

FromBytes(b) == FromBytesUpTo(b, 1)

\* if self.sems[k].value > 0: continue   (skipped on Darwin, which has no value)
\* Variants: the check left out; the comparison written >= 0; written > 1.
SaturatedNever(k) == FALSE

SaturatedOrEmpty(k) == system # "Darwin" /\ semv[k] >= 0

SaturatedAbove(k) == system # "Darwin" /\ semv[k] > 1

Saturated(k) == system # "Darwin" /\ semv[k] > 0

\* self.ram[:] = data: the slice assignment to the memoryview raises
\* ValueError, before it stores a byte, unless data is as long as the region.
Fits(region, data) == Len(data) = Len(region)

\* Variant: an assignment that stores the bytes that fit before it fails.
AssignedPrefix(region, data) ==
    [i \in 1..Len(region) |-> IF i <= Len(data) THEN data[i] ELSE region[i]]

\* The region's content after self.ram[:] = data.
Assigned(region, data) == IF Fits(region, data) THEN data ELSE region

\* A payload of the wrong length: one cell short or one cell long.
WrongPayloads(n) == {[i \in 1..len |-> n] : len \in {Len(Payload(n)) - 1, Len(Payload(n)) + 1}}

\* cnt += 1
IncCnt(c) == c + 1

\* Variant: the decrement left out.
KeepCnt(c) == c

\* cnt -= 1
DecCnt(c) == c - 1

\* Variant: the test written against the count before the increment.
FirstReaderZero(c) == c = 0

\* if cnt == 1: self.ram_sem.acquire()
FirstReader(c) == c = 1

\* Variant: every reader that leaves releases the frame semaphore.
LastReaderAlways(c) == TRUE

\* Variant: the last reader out does not see that it is the last.
LastReaderNever(c) == FALSE

\* if cnt.item() == 0: self.ram_sem.release()
LastReader(c) == c = 0

\* ---------------------------------------------------------------- metadata
\* Text is a sequence of one-character strings.
DigitChars == <<"0", "1", "2", "3", "4", "5", "6", "7", "8", "9">>

\* The dtype names the model draws from, and their spelling.
DTypes == {"uint8", "int16", "float32"}

Name(d) ==
    CASE d = "uint8" -> <<"u", "i", "n", "t", "8">>
      [] d = "int16" -> <<"i", "n", "t", "1", "6">>
      [] d = "float32" -> <<"f", "l", "o", "a", "t", "3", "2">>

\* The dimensions the model draws from, and the shapes of up to MaxRank of them.
Dims == {3, 1000, 10000}
Shapes == UNION {[1..k -> Dims] : k \in 1..MaxRank}

\* Variant: the first part takes one unit from the last.
numbers_sum_uneven(tot, n) ==
    [i \in 1..n |-> IF i = 1 THEN tot \div n + 1 ELSE IF i = n THEN tot \div n - 1 ELSE tot \div n]

\* numbers_sum(tot, n)
numbers_sum(tot, n) ==
    IF tot <= 0 \/ n <= 0
      THEN <<>>
      ELSE [i \in 1..n |-> IF i <= tot % n THEN tot \div n + 1 ELSE tot \div n]

\* str(n)
RECURSIVE Digits(_)
Digits(n) == IF n < 10 THEN <<DigitChars[n + 1]>>
             ELSE Append(Digits(n \div 10), DigitChars[(n % 10) + 1])

\* 'x'.join(map(str, shape))
RECURSIVE JoinX(_)
JoinX(shape) ==
    IF shape = <<>> THEN <<>>
    ELSE IF Len(shape) = 1 THEN Digits(shape[1])
    ELSE Digits(shape[1]) \o <<"x">> \o JoinX(Tail(shape))

\* s.ljust(w, '*'): s itself when it is w long or longer
Ljust(s, w) == s \o [i \in 1..(IF w > Len(s) THEN w - Len(s) ELSE 0) |-> "*"]

\* The bytes _serialize builds:
\* f"{'x'.join(map(str, shape)).ljust(fill_up_size[0],'*')}|{dtype.ljust(fill_up_size[-1]-1,'*')}"
Record(shape, dtype) ==
    LET fill_up_size == numbers_sum(MatBytes, 2)
    IN Ljust(JoinX(shape), fill_up_size[1]) \o <<"|">>
         \o Ljust(Name(dtype), fill_up_size[Len(fill_up_size)] - 1)

\* A region as _crea_mem leaves it: zero-filled.
ZeroFilled == [i \in 1..MatBytes |-> "NUL"]

\* s.split(sep)
RECURSIVE Split(_, _)
Split(s, sep) ==
    IF \A i \in 1..Len(s) : s[i] # sep
      THEN <<s>>
      ELSE LET i == CHOOSE i \in 1..Len(s) : s[i] = sep /\ \A j \in 1..(i - 1) : s[j] # sep
           IN <<SubSeq(s, 1, i - 1)>> \o Split(SubSeq(s, i + 1, Len(s)), sep)

\* int(s) accepts s
IsNumber(s) == s # <<>> /\ \A i \in 1..Len(s) : \E d \in 1..10 : DigitChars[d] = s[i]

\* int(s)
RECURSIVE ParseInt(_)
ParseInt(s) ==
    IF s = <<>> THEN 0
    ELSE 10 * ParseInt(SubSeq(s, 1, Len(s) - 1))
           + (CHOOSE d \in 0..9 : DigitChars[d + 1] = s[Len(s)])

\* self.mat.tobytes().decode("utf-8").replace("*", "").split("|")
Parts(region) == Split(SelectSeq(region, LAMBDA c : c # "*"), "|")

\* _deserialize runs through: the two-name unpacking, int() of every
\* dimension and getattr(np, dtype) all succeed.
Parses(region) ==
    LET p == Parts(region)
    IN /\ Len(p) = 2
       /\ \A i \in 1..Len(Split(p[1], "x")) : IsNumber(Split(p[1], "x")[i])
       /\ \E d \in DTypes : Name(d) = p[2]

\* What _deserialize returns.
Deserialized(region) ==
    LET p == Parts(region)
        dims == Split(p[1], "x")
    IN [shape |-> [i \in 1..Len(dims) |-> ParseInt(dims[i])],
        dtype |-> CHOOSE d \in DTypes : Name(d) = p[2]]

\* -------------------------------------------------------------------- Init
\* After the publisher's construction (fresh regions are zero-filled, every
\* region semaphore was created and released once, the listener is
\* running) and each subscriber's construction (regions opened), before any
\* signin.  Running is the part of it about the running system.
Regions ==
    /\ ram = Payload(0)
    /\ stm = ToBytes(0)
    /\ cnt = 0
    /\ ram_sem = 1
    /\ cnt_sem = 1

\* No wake semaphore exists and no signin was processed.
NoWakeSems ==
    /\ named = [k \in Subs |-> FALSE]
    /\ obj = [k \in Subs |-> 0]
    /\ reg = [k \in Subs |-> -1]
    /\ hnd = [s \in Subs |-> -1]

\* The publisher's listener is running, nothing was published, no
\* subscriber has signed in.
Idle ==
    /\ system \in {"Linux", "Darwin"}
    /\ semv = [k \in Subs |-> 0]
    /\ sems = <<>>
    /\ sems_lock = "free"
    /\ mq = <<>>
    /\ wpc = "idle"
    /\ wkeys = <<>>
    /\ npub = 0
    /\ wdone = 0
    /\ wdata = <<>>
    /\ wstm = 0
    /\ lpc = "recv"
    /\ lmsg = 0
    /\ cpc = [s \in Subs |-> "out"]
    /\ rsems = [s \in Subs |-> FALSE]
    /\ pc = [s \in Subs |-> "idle"]
    /\ rstm = [s \in Subs |-> 0]
    /\ rdata = [s \in Subs |-> Payload(0)]
    /\ last = [s \in Subs |-> -1]
    /\ quiet = [s \in Subs |-> FALSE]
    /\ sin = [s \in Subs |-> 0]

Started == NoWakeSems /\ Idle

Running == Regions /\ Started

\* The publisher's construction found nothing under the topic's names.
NothingLeft == [ram_sem |-> -1, cnt_sem |-> -1, mat_sem |-> -1, cnt |-> 0]

\* The topic of the running system is one row of Len(Payload(0)) uint8 cells.
Built ==
    /\ left = NothingLeft
    /\ decl = [shape |-> <<Len(Payload(0))>>, dtype |-> "uint8"]
    /\ mat = Record(decl.shape, decl.dtype)
    /\ mat_sem = 1
    /\ ppc = "done"
    /\ spc = [s \in Subs |-> "done"]
    /\ got = [s \in Subs |-> Deserialized(mat)]

\* No Client has requested the topic.
Unrequested ==
    /\ buf = 0
    /\ concat = FALSE
    /\ res = <<>>
    /\ update = FALSE
    /\ tpc = "none"
    /\ tgot = [data |-> Payload(0), stm |-> 0]
    /\ nread = 0
    /\ upc = "none"
    /\ ret = <<>>
    /\ hist = <<>>
    /\ mark = -1

Init == Running /\ Built /\ Unrequested

\* ------------------------------------------------- publisher: write(data, stm)
\* Sensor.run: the next packet is handed to write; publication npub' starts.
WriteCall ==
    /\ wpc = "idle"
    /\ npub < MaxPub
    /\ npub' = npub + 1
    /\ wdata' = Payload(npub')
    /\ wstm' = Stamp(npub')
    /\ wpc' = "acq"
    /\ quiet' = [s \in Subs |-> FALSE]
    /\ UNCHANGED <<pubvars, wkeys, wdone, lvars, cpc, rsems, pc, rstm, rdata, last, sin, mvars, cvars, ovars>>

\* write is called with a payload whose length is not frame_bytes; no
\* publication starts.
WriteCallBad ==
    /\ wpc = "idle"
    /\ wdata' \in WrongPayloads(npub + 1)
    /\ wstm' = Stamp(npub + 1)
    /\ wpc' = "acq"
    /\ quiet' = [s \in Subs |-> FALSE]
    /\ UNCHANGED <<pubvars, wkeys, npub, wdone, lvars, cpc, rsems, pc, rstm, rdata, last, sin,
                   mvars, cvars, ovars>>

\* write is called with a payload of the right length and a timestamp that
\* is not in 0..2^64-1; no publication starts.
WriteCallBadStamp ==
    /\ wpc = "idle"
    /\ npub < MaxPub
    /\ wdata' = Payload(npub + 1)
    /\ wstm' \in BadStamps
    /\ wpc' = "acq"
    /\ quiet' = [s \in Subs |-> FALSE]
    /\ UNCHANGED <<pubvars, wkeys, npub, wdone, lvars, cpc, rsems, pc, rstm, rdata, last, sin,
                   mvars, cvars, ovars>>

\* self.ram_sem.acquire()
WriteAcquire ==
    /\ wpc = "acq"
    /\ ram_sem > 0
    /\ ram_sem' = ram_sem - 1
    /\ wpc' = "ram1"
    /\ UNCHANGED <<system, ram, stm, cnt, cnt_sem, named, semv, sems, sems_lock, mq,
                   wkeys, npub, wdone, wdata, wstm, lvars, svars, mvars, cvars, ovars>>

\* self.ram[:] = data: the copy into the region, first cell.  With data of
\* another length the statement raises and write ends there: nothing after
\* line 244 runs, self.ram_sem.release() included.
WriteRam1 ==
    /\ wpc = "ram1"
    /\ ram' = [ram EXCEPT ![1] = Assigned(ram, wdata)[1]]
    /\ wpc' = IF Fits(ram, wdata) THEN "ram2" ELSE "idle"
    /\ UNCHANGED <<system, stm, cnt, ram_sem, cnt_sem, named, semv, sems, sems_lock, mq,
                   wkeys, npub, wdone, wdata, wstm, lvars, svars, mvars, cvars, ovars>>

\* self.ram[:] = data: second cell
WriteRam2 ==
    /\ wpc = "ram2"
    /\ ram' = [ram EXCEPT ![2] = Assigned(ram, wdata)[2]]
    /\ wpc' = "stm"
    /\ UNCHANGED <<system, stm, cnt, ram_sem, cnt_sem, named, semv, sems, sems_lock, mq,
                   wkeys, npub, wdone, wdata, wstm, lvars, svars, mvars, cvars, ovars>>

\* self.stm[:8] = stm.to_bytes(8, "little").  to_bytes raises OverflowError
\* for a timestamp it cannot encode and write ends there: the frame is
\* written, the timestamp region is not, self.ram_sem.release() does not run.
WriteStm ==
    /\ wpc = "stm"
    /\ IF Encodable(wstm)
         THEN stm' = ToBytes(wstm) /\ wpc' = "rel"
         ELSE stm' = stm /\ wpc' = "idle"
    /\ UNCHANGED <<system, ram, cnt, ram_sem, cnt_sem, named, semv, sems, sems_lock, mq,
                   wkeys, npub, wdone, wdata, wstm, lvars, svars, mvars, cvars, ovars>>

\* self.ram_sem.release()
WriteRelease ==
    /\ wpc = "rel"
    /\ ram_sem' = ram_sem + 1
    /\ wpc' = "lock"
    /\ UNCHANGED <<system, ram, stm, cnt, cnt_sem, named, semv, sems, sems_lock, mq,
                   wkeys, npub, wdone, wdata, wstm, lvars, svars, mvars, cvars, ovars>>

\* Variant: the lock is held for the snapshot only.
WriteLockSnapshot ==
    /\ wpc = "lock"
    /\ sems_lock = "free"
    /\ sems_lock' = "free"
    /\ wkeys' = sems
    /\ wpc' = "loop"
    /\ UNCHANGED <<system, ram, stm, cnt, ram_sem, cnt_sem, named, semv, sems, mq,
                   npub, wdone, wdata, wstm, lvars, svars, mvars, cvars, ovars>>

\* with self.sems_lock: for k in list(self.sems.keys())
WriteLock ==
    /\ wpc = "lock"
    /\ sems_lock = "free"
    /\ sems_lock' = "writer"
    /\ wkeys' = sems
    /\ wpc' = "loop"
    /\ UNCHANGED <<system, ram, stm, cnt, ram_sem, cnt_sem, named, semv, sems, mq,
                   npub, wdone, wdata, wstm, lvars, svars, mvars, cvars, ovars>>

\* if k in self.sems: if system != "Darwin": if self.sems[k].value > 0: continue
WriteCheck ==
    /\ wpc = "loop"
    /\ wkeys # <<>>
    /\ IF Saturated(Head(wkeys))
         THEN wkeys' = Tail(wkeys) /\ wpc' = "loop"
         ELSE wkeys' = wkeys /\ wpc' = "signal"
    /\ UNCHANGED <<pubvars, npub, wdone, wdata, wstm, lvars, svars, mvars, cvars, ovars>>

\* self.sems[k].release()
WriteSignal ==
    /\ wpc = "signal"
    /\ semv' = [semv EXCEPT ![Head(wkeys)] = @ + 1]
    /\ wkeys' = Tail(wkeys)
    /\ wpc' = "loop"
    /\ UNCHANGED <<system, ram, stm, cnt, ram_sem, cnt_sem, named, sems, sems_lock, mq,
                   npub, wdone, wdata, wstm, lvars, svars, mvars, cvars, ovars>>

\* the loop ends, the with block releases sems_lock, write returns
WriteDone ==
    /\ wpc = "loop"
    /\ wkeys = <<>>
    /\ sems_lock' = "free"
    /\ wpc' = "idle"
    /\ wdone' = wdone + 1
    /\ UNCHANGED <<system, ram, stm, cnt, ram_sem, cnt_sem, named, semv, sems, mq,
                   wkeys, npub, wdata, wstm, lvars, svars, mvars, cvars, ovars>>

\* ------------------------------------------------ publisher: listener (dsync)
\* msg = self.comm.recv(), dispatch on msg["command"]
ListenerRecv ==
    /\ lpc = "recv"
    /\ mq # <<>>
    /\ lmsg' = Head(mq).r_id
    /\ lpc' = Head(mq).command
    /\ mq' = Tail(mq)
    /\ UNCHANGED <<system, ram, stm, cnt, ram_sem, cnt_sem, named, semv, sems, sems_lock,
                   wvars, svars, mvars, cvars, ovars>>

\* signin, mode "w": with self.sems_lock: _crea_sem creates the semaphore
\* (unlinking one that exists under the name) with count 0 and releases it
\* once; self.sems[r_id] takes it.
ListenerSignin ==
    /\ lpc = "signin"
    /\ sems_lock = "free"
    /\ named' = [named EXCEPT ![lmsg] = TRUE]
    /\ semv' = [semv EXCEPT ![lmsg] = 0 + 1]
    /\ sems' = DictPut(sems, lmsg)
    /\ obj' = [obj EXCEPT ![lmsg] = @ + 1]
    /\ reg' = [reg EXCEPT ![lmsg] = obj'[lmsg]]
    /\ lpc' = "recv"
    /\ UNCHANGED <<system, ram, stm, cnt, ram_sem, cnt_sem, sems_lock, mq, lmsg,
                   wvars, svars, mvars, cvars, hnd>>

\* signout, mode "w": with self.sems_lock: if r_name in self.sems: unlink();
\* unlink of a name that no longer exists raises, and except: pass ends the
\* handler with the registry as it was.  After an unlink that succeeds the
\* handler goes on to comm.send.
ListenerSignout ==
    /\ lpc = "signout"
    /\ sems_lock = "free"
    /\ IF InSeq(lmsg, sems) /\ named[lmsg]
         THEN /\ named' = [named EXCEPT ![lmsg] = FALSE]
              /\ sems_lock' = "listener"
              /\ lpc' = "so_send"
         ELSE /\ UNCHANGED <<named, sems_lock>>
              /\ lpc' = "recv"
    /\ UNCHANGED <<system, ram, stm, cnt, ram_sem, cnt_sem, semv, sems, mq, lmsg,
                   wvars, svars, mvars, cvars, ovars>>

\* Variant: a listener that empties the registry as it exits.
ListenerRecvFailsClears ==
    /\ lpc = "recv"
    /\ lpc' = "stopped"
    /\ sems' = <<>>
    /\ UNCHANGED <<system, ram, stm, cnt, ram_sem, cnt_sem, named, semv, sems_lock, mq, lmsg,
                   wvars, svars, mvars, cvars, ovars>>

\* msg = self.comm.recv() raises (the receive fails, or json.loads does):
\* nothing in dsync catches it, the exception ends the listener thread.
ListenerRecvFails ==
    /\ lpc = "recv"
    /\ lpc' = "stopped"
    /\ UNCHANGED <<pubvars, lmsg, wvars, svars, mvars, cvars, ovars>>

\* ------------------------------------------- subscriber: signin and signout
\* signin, mode "r": with self.sems_lock: self.comm.send(signin)
SubSigninSend(s) ==
    /\ cpc[s] = "out"
    /\ ~QueueFull
    /\ mq' = Append(mq, Msg("signin", s))
    /\ cpc' = [cpc EXCEPT ![s] = "open"]
    /\ UNCHANGED <<system, ram, stm, cnt, ram_sem, cnt_sem, named, semv, sems, sems_lock,
                   wvars, lvars, rsems, pc, rstm, rdata, last, quiet, sin, mvars, cvars, ovars>>

\* _crex_sem polls until Semaphore(name) opens; signin returns
SubSigninOpen(s) ==
    /\ cpc[s] = "open"
    /\ named[s]
    /\ rsems' = [rsems EXCEPT ![s] = TRUE]
    /\ cpc' = [cpc EXCEPT ![s] = "in"]
    /\ sin' = [sin EXCEPT ![s] = wdone]
    /\ hnd' = [hnd EXCEPT ![s] = obj[s]]
    /\ UNCHANGED <<pubvars, wvars, lvars, pc, rstm, rdata, last, quiet, mvars, cvars,
                   obj, reg>>

\* signin, mode "r", called again by a subscriber that is signed in (a
\* second Client.request of the topic), once its earlier signin was handled:
\* self.comm.send(signin), then _crex_sem as before.
SubSigninAgain(s) ==
    /\ cpc[s] = "in"
    /\ reg[s] >= 0
    /\ obj[s] < MaxSignin
    /\ ~InSeq(Msg("signin", s), mq)
    /\ ~(lpc = "signin" /\ lmsg = s)
    /\ ~QueueFull
    /\ mq' = Append(mq, Msg("signin", s))
    /\ cpc' = [cpc EXCEPT ![s] = "open"]
    /\ UNCHANGED <<system, ram, stm, cnt, ram_sem, cnt_sem, named, semv, sems, sems_lock,
                   wvars, lvars, rsems, pc, rstm, rdata, last, quiet, sin, mvars, cvars, ovars>>

\* Variant: a signout that sends its message with the semaphore's name
\* still linked.
SubSignoutKeepsName(s) ==
    /\ cpc[s] = "in"
    /\ cpc' = [cpc EXCEPT ![s] = "so_send"]
    /\ last' = [last EXCEPT ![s] = -1]
    /\ sin' = [sin EXCEPT ![s] = 0]
    /\ quiet' = [quiet EXCEPT ![s] = FALSE]
    /\ UNCHANGED <<system, ram, stm, cnt, ram_sem, cnt_sem, named, semv, sems, sems_lock, mq,
                   wvars, lvars, rsems, pc, rstm, rdata, mvars, cvars, ovars>>

\* signout, mode "r": with self.sems_lock: if r_name in self.sems: unlink()
SubSignoutUnlink(s) ==
    /\ cpc[s] = "in"
    /\ IF named[s]
         THEN /\ named' = [named EXCEPT ![s] = FALSE]
              /\ cpc' = [cpc EXCEPT ![s] = "so_send"]
         ELSE /\ named' = named
              /\ cpc' = [cpc EXCEPT ![s] = "closed"]
    /\ last' = [last EXCEPT ![s] = -1]
    /\ sin' = [sin EXCEPT ![s] = 0]
    /\ quiet' = [quiet EXCEPT ![s] = FALSE]
    /\ UNCHANGED <<system, ram, stm, cnt, ram_sem, cnt_sem, semv, sems, sems_lock, mq,
                   wvars, lvars, rsems, pc, rstm, rdata, mvars, cvars, ovars>>

\* Variant: a close that joins the worker without a timeout, and so returns
\* only with the worker outside read.
SubSignoutSendJoins(s) ==
    /\ cpc[s] = "so_send"
    /\ ~QueueFull
    /\ pc[s] \in {"idle", "stopped"}
    /\ mq' = Append(mq, Msg("signout", s))
    /\ rsems' = [rsems EXCEPT ![s] = FALSE]
    /\ hnd' = [hnd EXCEPT ![s] = -1]
    /\ cpc' = [cpc EXCEPT ![s] = "closed"]
    /\ UNCHANGED <<system, ram, stm, cnt, ram_sem, cnt_sem, named, semv, sems, sems_lock,
                   wvars, lvars, pc, rstm, rdata, last, quiet, sin, mvars, cvars, obj, reg>>

\* Variant: a signout that sends its message and keeps the id in self.sems.
SubSignoutSendKeepsEntry(s) ==
    /\ cpc[s] = "so_send"
    /\ ~QueueFull
    /\ mq' = Append(mq, Msg("signout", s))
    /\ cpc' = [cpc EXCEPT ![s] = "closed"]
    /\ UNCHANGED <<system, ram, stm, cnt, ram_sem, cnt_sem, named, semv, sems, sems_lock,
                   wvars, lvars, rsems, pc, rstm, rdata, last, quiet, sin, mvars, cvars, ovars>>

\* self.comm.send(signout); del self.sems[r_name]; the lock is released.
\* Client.close then waits for the worker with thread.join(timeout=1.0),
\* which returns after a second at the latest, and returns.
SubSignoutSend(s) ==
    /\ cpc[s] = "so_send"
    /\ ~QueueFull
    /\ mq' = Append(mq, Msg("signout", s))
    /\ rsems' = [rsems EXCEPT ![s] = FALSE]
    /\ hnd' = [hnd EXCEPT ![s] = -1]
    /\ cpc' = [cpc EXCEPT ![s] = "closed"]
    /\ UNCHANGED <<system, ram, stm, cnt, ram_sem, cnt_sem, named, semv, sems, sems_lock,
                   wvars, lvars, pc, rstm, rdata, last, quiet, sin, mvars, cvars, obj, reg>>

\* Variant: a second signout that sends its message whether or not the id is
\* in self.sems.
SubSignoutAgainSends(s) ==
    /\ cpc[s] = "closed"
    /\ ~QueueFull
    /\ mq' = Append(mq, Msg("signout", s))
    /\ cpc' = [cpc EXCEPT ![s] = "deleted"]
    /\ UNCHANGED <<system, ram, stm, cnt, ram_sem, cnt_sem, named, semv, sems, sems_lock,
                   wvars, lvars, rsems, pc, rstm, rdata, last, quiet, sin, mvars, cvars, ovars>>

\* Client.close a second time (example/c.py closes in its handler, and
\* Client.__del__ closes again): signout, mode "r", for an id that the first
\* signout deleted from self.sems finds r_name not in self.sems.  With the
\* entry still there, unlink() of a name that is gone raises and except: pass
\* ends the call.
SubSignoutAgain(s) ==
    /\ cpc[s] = "closed"
    /\ IF rsems[s] /\ named[s]
         THEN /\ named' = [named EXCEPT ![s] = FALSE]
              /\ cpc' = [cpc EXCEPT ![s] = "so_send"]
         ELSE /\ named' = named
              /\ cpc' = [cpc EXCEPT ![s] = "deleted"]
    /\ UNCHANGED <<system, ram, stm, cnt, ram_sem, cnt_sem, semv, sems, sems_lock, mq,
                   wvars, lvars, rsems, pc, rstm, rdata, last, quiet, sin, mvars, cvars, ovars>>

\* ------------------------------------------------- subscriber: read(r_id)
\* Variant: read without the test of self.sems; it goes on to the acquire.
ReadCallUnchecked(s) ==
    /\ pc[s] = "idle"
    /\ cpc[s] \in {"in", "closed"}
    /\ pc' = [pc EXCEPT ![s] = "wake"]
    /\ quiet' = [quiet EXCEPT ![s] = (wpc = "idle")]
    /\ UNCHANGED <<pubvars, wvars, lvars, cpc, rsems, rstm, rdata, last, sin, mvars, cvars, ovars>>

\* The worker starts after signin returned (Client.request, then Client.run).
\* with self.sems_lock: if r_id not in self.sems: raise KeyError
ReadCall(s) ==
    /\ pc[s] = "idle"
    /\ cpc[s] \in {"in", "closed"}
    /\ IF rsems[s]
         THEN /\ pc' = [pc EXCEPT ![s] = "wake"]
              /\ quiet' = [quiet EXCEPT ![s] = (wpc = "idle")]
         ELSE /\ pc' = [pc EXCEPT ![s] = "stopped"]
              /\ quiet' = quiet
    /\ UNCHANGED <<pubvars, wvars, lvars, cpc, rsems, rstm, rdata, last, sin, mvars, cvars, ovars>>

\* sem.acquire()
ReadWake(s) ==
    /\ pc[s] = "wake"
    /\ semv[s] > 0
    /\ semv' = [semv EXCEPT ![s] = @ - 1]
    /\ pc' = [pc EXCEPT ![s] = "enter"]
    /\ UNCHANGED <<system, ram, stm, cnt, ram_sem, cnt_sem, named, sems, sems_lock, mq,
                   wvars, lvars, cpc, rsems, rstm, rdata, last, quiet, sin, mvars, cvars, ovars>>

\* self.cnt_sem.acquire(); cnt += 1; if cnt == 1: self.ram_sem.acquire().
\* The first reader that finds ram_sem taken waits for it holding cnt_sem.
\* Any other goes on: self.cnt_sem.release(); data is a view of the region
\* (no copy); stm = int.from_bytes(self.stm[:8], "little").
ReadEnter(s) ==
    /\ pc[s] = "enter"
    /\ cnt_sem > 0
    /\ cnt' = IncCnt(cnt)
    /\ IF FirstReader(cnt') /\ ram_sem = 0
         THEN /\ cnt_sem' = cnt_sem - 1
              /\ UNCHANGED <<ram_sem, rstm>>
              /\ pc' = [pc EXCEPT ![s] = "ramacq"]
         ELSE /\ cnt_sem' = cnt_sem
              /\ ram_sem' = IF FirstReader(cnt') THEN ram_sem - 1 ELSE ram_sem
              /\ rstm' = [rstm EXCEPT ![s] = FromBytes(stm)]
              /\ pc' = [pc EXCEPT ![s] = "exit"]
    /\ UNCHANGED <<system, ram, stm, named, semv, sems, sems_lock, mq,
                   wvars, lvars, cpc, rsems, rdata, last, quiet, sin, mvars, cvars, ovars>>

\* the first reader's self.ram_sem.acquire() returns; self.cnt_sem.release();
\* stm = int.from_bytes(self.stm[:8], "little")
ReadRamAcquire(s) ==
    /\ pc[s] = "ramacq"
    /\ ram_sem > 0
    /\ ram_sem' = ram_sem - 1
    /\ cnt_sem' = cnt_sem + 1
    /\ rstm' = [rstm EXCEPT ![s] = FromBytes(stm)]
    /\ pc' = [pc EXCEPT ![s] = "exit"]
    /\ UNCHANGED <<system, ram, stm, cnt, named, semv, sems, sems_lock, mq,
                   wvars, lvars, cpc, rsems, rdata, last, quiet, sin, mvars, cvars, ovars>>

\* self.cnt_sem.acquire(); cnt -= 1; if cnt == 0: self.ram_sem.release();
\* self.cnt_sem.release()
ReadExit(s) ==
    /\ pc[s] = "exit"
    /\ cnt_sem > 0
    /\ cnt' = DecCnt(cnt)
    /\ ram_sem' = IF LastReader(cnt') THEN ram_sem + 1 ELSE ram_sem
    /\ pc' = [pc EXCEPT ![s] = "copy1"]
    /\ UNCHANGED <<system, ram, stm, cnt_sem, named, semv, sems, sems_lock, mq,
                   wvars, lvars, cpc, rsems, rstm, rdata, last, quiet, sin, mvars, cvars, ovars>>

\* return (data.copy(), stm): the copy out of the region, first cell
ReadCopy1(s) ==
    /\ pc[s] = "copy1"
    /\ rdata' = [rdata EXCEPT ![s][1] = ram[1]]
    /\ pc' = [pc EXCEPT ![s] = "copy2"]
    /\ UNCHANGED <<pubvars, wvars, lvars, cpc, rsems, rstm, last, quiet, sin, mvars, cvars, ovars>>

\* the copy's second cell; read returns (Returned(s), rstm[s])
Returned(s) == [rdata[s] EXCEPT ![2] = ram[2]]

ReadCopy2(s) ==
    /\ pc[s] = "copy2"
    /\ last' = [last EXCEPT ![s] = IF cpc[s] = "in" THEN rstm[s] ELSE @]
    /\ rdata' = [rdata EXCEPT ![s] = Payload(0)]
    /\ rstm' = [rstm EXCEPT ![s] = 0]
    /\ quiet' = [quiet EXCEPT ![s] = FALSE]
    /\ pc' = [pc EXCEPT ![s] = "idle"]
    /\ UNCHANGED <<pubvars, wvars, lvars, cpc, rsems, sin, mvars, cvars, ovars>>

\* ------------------------------------------------------------ construction
\* Before any construction: no region and no semaphore of the topic exists;
\* the publisher is about to be constructed with some shape and dtype.  The
\* variables of the running system are not used before construction ends.
MetaInit ==
    /\ Running
    /\ decl \in [shape : Shapes, dtype : DTypes]
    /\ mat = <<>>
    /\ mat_sem = -1
    /\ ppc = "start"
    /\ spc = [s \in Subs |-> "start"]
    /\ got = [s \in Subs |-> [shape |-> <<>>, dtype |-> "none"]]
    /\ left = NothingLeft
    /\ Unrequested

\* Variant: a semaphore that exists under the name is opened and used as it
\* is (O_CREAT without the unlink).
crea_sem_reuse(old) == IF old < 0 THEN 0 + 1 ELSE old + 1

\* _crea_sem, given the count of the semaphore that exists under the name
\* (-1 when there is none): Semaphore(name, O_CREX), after unlinking a
\* semaphore that exists, makes a new one with count 0; sem.release()
crea_sem(old) == 0 + 1

\* __init__, mode "w": _crea_mem makes each region anew (unlinking a region
\* that exists under the name), zero-filled; _crea_sem makes each region
\* semaphore.
PubCreate ==
    /\ ppc = "start"
    /\ ram' = Payload(0)
    /\ stm' = ToBytes(0)
    /\ cnt' = 0
    /\ mat' = ZeroFilled
    /\ ram_sem' = crea_sem(ram_sem)
    /\ cnt_sem' = crea_sem(cnt_sem)
    /\ mat_sem' = crea_sem(mat_sem)
    /\ ppc' = "serialize"
    /\ UNCHANGED <<system, named, semv, sems, sems_lock, mq, wvars, lvars, svars,
                   decl, spc, got, left, cvars, ovars>>

\* _serialize: self.mat_sem.acquire(); self.mat[:] = bytes(...), which raises
\* unless the record is as long as the region; self.mat_sem.release()
PubSerialize ==
    /\ ppc = "serialize"
    /\ mat_sem > 0
    /\ LET rec == Record(decl.shape, decl.dtype)
       IN /\ mat' = Assigned(mat, rec)
          /\ IF Fits(mat, rec)
               THEN mat_sem' = mat_sem /\ ppc' = "done"
               ELSE mat_sem' = mat_sem - 1 /\ ppc' = "raised"
    /\ UNCHANGED <<rvars, decl, spc, got, left, cvars, ovars>>

\* __init__, mode "r": _crex_mem and _crex_sem poll until every region and
\* every region semaphore can be opened.
SubOpen(s) ==
    /\ spc[s] = "start"
    /\ mat # <<>>
    /\ mat_sem >= 0
    /\ spc' = [spc EXCEPT ![s] = "deserialize"]
    /\ UNCHANGED <<rvars, decl, mat, mat_sem, ppc, got, left, cvars, ovars>>

\* _deserialize: self.mat_sem.acquire(); parse the region; an exception
\* leaves before self.mat_sem.release()
SubDeserialize(s) ==
    /\ spc[s] = "deserialize"
    /\ mat_sem > 0
    /\ IF Parses(mat)
         THEN /\ got' = [got EXCEPT ![s] = Deserialized(mat)]
              /\ mat_sem' = mat_sem
              /\ spc' = [spc EXCEPT ![s] = "done"]
         ELSE /\ got' = got
              /\ mat_sem' = mat_sem - 1
              /\ spc' = [spc EXCEPT ![s] = "raised"]
    /\ UNCHANGED <<rvars, decl, mat, ppc, left, cvars, ovars>>

MetaNext == PubCreate \/ PubSerialize \/ \E s \in Subs : SubOpen(s) \/ SubDeserialize(s)

MetaSpec == MetaInit /\ [][MetaNext]_vars

\* A publisher constructed where an earlier publisher of the topic left its
\* names behind: each region semaphore absent (-1) or left with some count,
\* the regions with some content.
StaleCounts == -1..MaxStale

StaleInit ==
    /\ Started
    /\ Unrequested
    /\ ram \in {Payload(0), Payload(1)}
    /\ stm \in {ToBytes(0), ToBytes(1)}
    /\ cnt \in 0..MaxStale
    /\ ram_sem \in StaleCounts
    /\ cnt_sem \in StaleCounts
    /\ mat_sem \in StaleCounts
    /\ mat \in {<<>>, ZeroFilled, Record(<<3>>, "int16")}
    /\ decl = [shape |-> <<Len(Payload(0))>>, dtype |-> "uint8"]
    /\ ppc = "start"
    /\ spc = [s \in Subs |-> "start"]
    /\ got = [s \in Subs |-> [shape |-> <<>>, dtype |-> "none"]]
    /\ left = [ram_sem |-> ram_sem, cnt_sem |-> cnt_sem, mat_sem |-> mat_sem, cnt |-> cnt]

StaleNext == PubCreate \/ PubSerialize

StaleSpec == StaleInit /\ [][StaleNext]_vars

\* ------------------------------------------------------------------ Client
\* The bufs a topic is requested with: 0 stands for None.
Bufs == 0..MaxBuf

\* if not buf: buf = 10
RingLen(b) == IF b = 0 THEN DefaultBuf ELSE b

\* What the n-th read of the worker returns.
Frame(n) == [data |-> Payload(n), stm |-> Stamp(n)]

\* deque([(np.zeros(shape, dtype), i) for i in range(buf)], maxlen=buf)
Placeholders(b) == [i \in 1..RingLen(b) |-> [data |-> Payload(0), stm |-> i - 1]]

\* Variant: deque.appendleft.
AppendedLeft(q, x, maxlen) ==
    IF Len(q) >= maxlen THEN <<x>> \o SubSeq(q, 1, Len(q) - 1) ELSE <<x>> \o q

\* Variant: a deque without maxlen.
AppendedUnbounded(q, x, maxlen) == Append(q, x)

\* deque.append on a deque with maxlen: a full deque drops its oldest entry.
Appended(q, x, maxlen) ==
    IF Len(q) >= maxlen THEN Append(Tail(q), x) ELSE Append(q, x)

\* Variant: the lock reported locked whatever its state.
LockedAlways(l) == TRUE

\* self.update[model].locked()
Locked(l) == l

\* np.stack([i[0] for i in list(itertools.islice(self.res[model], len(self.res[model])))])
\* if self.concat.get(model, None) else self.res[model][-1]
Latest(q, c) == IF c THEN [i \in 1..Len(q) |-> q[i].data] ELSE q[Len(q)]

\* After Client.request(model, buf) and Client.run(): the lock was created
\* and acquired, the ring holds its placeholders, the worker is started.
Requested ==
    /\ buf \in Bufs
    /\ concat = (buf # 0)
    /\ res = Placeholders(buf)
    /\ update = TRUE
    /\ tpc = "read"
    /\ tgot = [data |-> Payload(0), stm |-> 0]
    /\ nread = 0
    /\ upc = "idle"
    /\ ret = <<>>
    /\ hist = Placeholders(buf)
    /\ mark = -1

ClientInit == Running /\ Built /\ Requested

\* retrive: data, stm = self.resources[model].read(self.id)
RetriveRead ==
    /\ tpc = "read"
    /\ nread < MaxReads
    /\ nread' = nread + 1
    /\ tgot' = Frame(nread')
    /\ tpc' = "append"
    /\ UNCHANGED <<rvars, mvars, ovars, buf, concat, res, update, upc, ret, hist, mark>>

\* self.res[model].append((data.copy(), stm))
RetriveAppend ==
    /\ tpc = "append"
    /\ res' = Appended(res, tgot, RingLen(buf))
    /\ hist' = Append(hist, tgot)
    /\ tpc' = "locked"
    /\ UNCHANGED <<rvars, mvars, ovars, buf, concat, update, tgot, nread, upc, ret, mark>>

\* if self.update[model].locked():
RetriveLocked ==
    /\ tpc = "locked"
    /\ tpc' = IF Locked(update) THEN "release" ELSE "read"
    /\ UNCHANGED <<rvars, mvars, ovars, buf, concat, res, update, tgot, nread, upc, ret, hist, mark>>

\* self.update[model].release()
RetriveRelease ==
    /\ tpc = "release"
    /\ update' = FALSE
    /\ tpc' = "read"
    /\ UNCHANGED <<rvars, mvars, ovars, buf, concat, res, tgot, nread, upc, ret, hist, mark>>

\* The consumer calls latest(model).
LatestCall ==
    /\ upc = "idle"
    /\ upc' = "acquire"
    /\ UNCHANGED <<rvars, mvars, ovars, buf, concat, res, update, tpc, tgot, nread, ret, hist, mark>>

\* self.update[model].acquire()
LatestAcquire ==
    /\ upc = "acquire"
    /\ ~update
    /\ update' = TRUE
    /\ upc' = "ring"
    /\ UNCHANGED <<rvars, mvars, ovars, buf, concat, res, tpc, tgot, nread, ret, hist, mark>>

\* the ring is read and latest returns
LatestReturn ==
    /\ upc = "ring"
    /\ ret' = Latest(res, concat)
    /\ mark' = Len(hist)
    /\ upc' = "idle"
    /\ UNCHANGED <<rvars, mvars, ovars, buf, concat, res, update, tpc, tgot, nread, hist>>

Retrive == RetriveRead \/ RetriveAppend \/ RetriveLocked \/ RetriveRelease

LatestStep == LatestCall \/ LatestAcquire \/ LatestReturn

ClientNext == Retrive \/ LatestStep

ClientSpec == ClientInit /\ [][ClientNext]_vars

\* -------------------------------------------------------------------- Next
Write ==
    \/ WriteCall \/ WriteAcquire \/ WriteRam1 \/ WriteRam2 \/ WriteStm \/ WriteRelease
    \/ WriteLock \/ WriteCheck \/ WriteSignal \/ WriteDone

Listener ==
    \/ ListenerRecv \/ ListenerSignin \/ ListenerSignout

Control(s) ==
    \/ SubSigninSend(s) \/ SubSigninOpen(s) \/ SubSignoutUnlink(s) \/ SubSignoutSend(s)

Read(s) ==
    \/ ReadCall(s) \/ ReadWake(s) \/ ReadEnter(s) \/ ReadRamAcquire(s)
    \/ ReadExit(s) \/ ReadCopy1(s) \/ ReadCopy2(s)

Next == Write \/ Listener \/ \E s \in Subs : Control(s) \/ Read(s)

Spec == Init /\ [][Next]_vars

\* The subscribers stay: nobody signs out.  Threads the operating system
\* keeps scheduling: a write that was called runs on, the listener and every
\* worker run on whenever they are not blocked.  Nothing obliges the ingest
\* to hand over another frame, nor a subscriber to sign in.
WriteOn ==
    \/ WriteAcquire \/ WriteRam1 \/ WriteRam2 \/ WriteStm \/ WriteRelease
    \/ WriteLock \/ WriteCheck \/ WriteSignal \/ WriteDone

ListenerOn == ListenerRecv \/ ListenerSignin

NextStay ==
    \/ WriteCall \/ WriteOn \/ ListenerOn
    \/ \E s \in Subs : SubSigninSend(s) \/ SubSigninOpen(s) \/ Read(s)

FairSpec ==
    /\ Init
    /\ [][NextStay]_vars
    /\ WF_vars(WriteOn)
    /\ WF_vars(ListenerOn)
    /\ \A s \in Subs : WF_vars(Read(s))

\* The subscribers stay and the ingest may hand over a payload of the wrong
\* length.
NextErr == NextStay \/ WriteCallBad

ErrSpec == Init /\ [][NextErr]_vars

\* The subscribers stay and the ingest may hand over a timestamp that cannot
\* be encoded.
NextStamp == NextStay \/ WriteCallBadStamp

StampSpec == Init /\ [][NextStamp]_vars

\* Subscribers that sign in, sign out and close a second time, with the
\* publisher publishing; no worker reads.
NextClose ==
    \/ Write \/ Listener
    \/ \E s \in Subs : Control(s) \/ SubSignoutAgain(s)

CloseSpec == Init /\ [][NextClose]_vars

\* The threads of ErrSpec under the scheduling of FairSpec.
FairErrSpec ==
    /\ Init
    /\ [][NextErr]_vars
    /\ WF_vars(WriteOn)
    /\ WF_vars(ListenerOn)
    /\ \A s \in Subs : WF_vars(Read(s))

\* The ingest hands over no frame: the publisher's listener runs, the
\* subscribers sign in, read and close.  With no writer the frame semaphore
\* is only ever held by readers, so no reader waits for it.  Scheduling as in
\* FairSpec; a close that was called runs on, and nothing obliges a
\* subscriber to sign in or to close.
ReadOn(s) ==
    \/ ReadCall(s) \/ ReadWake(s) \/ ReadEnter(s)
    \/ ReadExit(s) \/ ReadCopy1(s) \/ ReadCopy2(s)

CloseOn(s) == SubSignoutSend(s)

NextQuiet == Listener \/ \E s \in Subs : Control(s) \/ ReadOn(s)

FairQuietSpec ==
    /\ Init
    /\ [][NextQuiet]_vars
    /\ WF_vars(Listener)
    /\ \A s \in Subs : WF_vars(ReadOn(s)) /\ WF_vars(CloseOn(s))

\* _crex_sem(f"sem-{self.name}-{r_id}") entered for a name nobody asked the
\* publisher to create: Semaphore(name) raises ExistentialError, the loop
\* sleeps 0.4 s and tries again.
SubOpenUnsigned(s) ==
    /\ cpc[s] = "out"
    /\ cpc' = [cpc EXCEPT ![s] = "open"]
    /\ UNCHANGED <<pubvars, wvars, lvars, rsems, pc, rstm, rdata, last, quiet, sin, mvars, cvars, ovars>>

NextOpen == NextQuiet \/ \E s \in Subs : SubOpenUnsigned(s)

OpenSpec == Init /\ [][NextOpen]_vars

\* Sensor.terminate, and the loop of Sensor.run ending: the publisher stops
\* publishing.  Neither they nor anything else in the publisher unlinks a
\* semaphore or a region, and dsync is `while True:` with no exit, so the
\* listener goes on as before.
Terminate ==
    /\ wpc = "idle"
    /\ wpc' = "terminated"
    /\ UNCHANGED <<pubvars, wkeys, npub, wdone, wdata, wstm, lvars, svars, mvars, cvars, ovars>>

NextShut == NextClose \/ Terminate

ShutSpec == Init /\ [][NextShut]_vars

\* Signing in only: names of wake semaphores may exist beforehand (left by
\* an earlier run), and a subscriber may sign in a second time.
SigninInit ==
    /\ Regions /\ Idle /\ Built /\ Unrequested
    /\ named \in [Subs -> BOOLEAN]
    /\ obj = [k \in Subs |-> 0]
    /\ reg = [k \in Subs |-> -1]
    /\ hnd = [s \in Subs |-> -1]

NextSignin ==
    \/ ListenerRecv \/ ListenerSignin
    \/ \E s \in Subs : SubSigninSend(s) \/ SubSigninOpen(s) \/ SubSigninAgain(s)

SigninSpec == SigninInit /\ [][NextSignin]_vars

\* The listener may exit on a failed receive; the publisher publishes and
\* subscribers sign in and out; no worker reads.
NextDown ==
    \/ Write \/ Listener \/ ListenerRecvFails
    \/ \E s \in Subs : Control(s)

DownSpec == Init /\ [][NextDown]_vars

\* ------------------------------------------------------------------ claims
\* The worker of s is at the last step of read: its next step returns
\* (Returned(s), rstm[s]).
Returning(s) == pc[s] = "copy2"

\* Subscribers that completed the reader-entry steps and have not begun the
\* reader-exit steps.
ReadersInside == {s \in Subs : pc[s] = "exit"}

\* The publisher is between ram_sem.acquire() and ram_sem.release().
WriterInside == wpc \in {"ram1", "ram2", "stm", "rel"}

\* C1: what a read returns is the payload and the timestamp of one single
\* publication (publication 0 being the initial content), never a mix.
C1_ReadIsOnePublication ==
    \A s \in Subs : Returning(s) =>
        \E n \in Pubs : Returned(s) = Payload(n) /\ rstm[s] = Stamp(n)

\* C2: a read by a signed-in subscriber that returns after publication npub
\* has completed and before a later one starts returns that publication.
C2_ReturnAfterPublication ==
    \A s \in Subs : (Returning(s) /\ cpc[s] = "in" /\ wpc = "idle" /\ npub >= 1) =>
        (Returned(s) = Payload(npub) /\ rstm[s] = Stamp(npub))

\* C2 as amended: a read by a signed-in subscriber that is called after
\* publication npub has completed and returns before a later one starts
\* returns that publication.
C2_ReadAfterPublication ==
    \A s \in Subs : (Returning(s) /\ cpc[s] = "in" /\ quiet[s] /\ npub >= 1) =>
        (Returned(s) = Payload(npub) /\ rstm[s] = Stamp(npub))

C2_Witness ==
    \E s \in Subs : Returning(s) /\ cpc[s] = "in" /\ quiet[s] /\ npub = 2

\* C3: the publisher is never inside write's critical section while a
\* subscriber is between reader entry and reader exit, and the frame and
\* timestamp regions change only while the publisher holds ram_sem.
C3_WriterReaderExclusion ==
    /\ [](~(WriterInside /\ ReadersInside # {}))
    /\ [][(ram' # ram \/ stm' # stm) => (WriterInside /\ ram_sem = 0)]_vars

C3_Witness == cnt = 2 /\ Cardinality(ReadersInside) = 2 /\ wpc = "acq"

\* C4: at all times the reader counter equals the number of subscribers
\* between reader entry and reader exit.
C4_CounterIsReadersInside == cnt = Cardinality(ReadersInside)

\* C4 as amended: the reader counter equals the number of subscribers that
\* have counted themselves in and not yet out, and whenever the counter
\* semaphore is free all of them are between reader entry and reader exit.
C4_CounterWhenUnlocked ==
    /\ cnt = Cardinality({s \in Subs : pc[s] \in {"ramacq", "exit"}})
    /\ cnt_sem = 1 => cnt = Cardinality(ReadersInside)

C4_Witness == cnt = 2 /\ cnt_sem = 1 /\ Cardinality(ReadersInside) = 2

\* C5: no two reads of a subscriber, between its signin and its signout,
\* return the same publication.
C5_AtMostOnce ==
    \A s \in Subs : (Returning(s) /\ cpc[s] = "in" /\ last[s] >= 1) => rstm[s] # last[s]

\* A publication that started after s's signin returned has completed, and s
\* has not yet had a read return it or a later one.
Owed(s) == cpc[s] = "in" /\ wdone > sin[s] /\ last[s] < wdone

\* The wake token of s is pending, or its read in progress has taken it and
\* will return publication wdone or a later one.
Pending(s) ==
    \/ semv[s] >= 1
    \/ pc[s] \in {"enter", "ramacq"}
    \/ pc[s] \in {"exit", "copy1", "copy2"} /\ rstm[s] >= wdone

\* C6: no lost wakeup.  While a subscriber that signed in before a completed
\* publication has not observed it, its wake token is pending or taken by
\* the read in progress; a read that has taken its token finds a timestamp
\* no older than the last completed publication, and bytes no older than
\* that timestamp; and with its worker calling read the subscriber comes to
\* have a read return that publication or a later one.
C6_NoLostWakeup ==
    /\ [](\A s \in Subs : Owed(s) => Pending(s))
    /\ [](\A s \in Subs : pc[s] \in {"exit", "copy1", "copy2"} =>
              (FromBytes(stm) >= rstm[s] /\ \A i \in Cells : ram[i] >= rstm[s]))
    /\ [][\A s \in Subs : (pc[s] \in {"enter", "ramacq"} /\ pc'[s] = "exit") =>
              rstm'[s] >= wdone]_vars
    /\ \A s \in Subs : Owed(s) ~> ~Owed(s)

C6_Witness ==
    \E s \in Subs : /\ system # "Darwin" /\ cpc[s] = "in" /\ sin[s] = 0 /\ wdone = 1
                    /\ last[s] = 0 /\ pc[s] = "wake" /\ semv[s] = 1

\* C7: on a platform other than Darwin no wake semaphore counts more than 1.
C7_WakeAtMostOne ==
    system # "Darwin" => \A k \in Subs : semv[k] <= 1

C7_Witness ==
    /\ system # "Darwin"
    /\ wdone = 2
    /\ \E s \in Subs : cpc[s] = "in" /\ sin[s] = 0 /\ last[s] = -1 /\ pc[s] = "idle"
                       /\ semv[s] = 1

\* C8: after publications completed back-to-back while a signed-in subscriber
\* did not read, its next read returns the last of them, and the read after
\* that one blocks (no wake token is left) unless there is a new publication.
C8_LatestWins ==
    \A s \in Subs :
        (Returning(s) /\ cpc[s] = "in" /\ quiet[s] /\ npub > sin[s] /\ last[s] < npub) =>
            /\ Returned(s) = Payload(npub) /\ rstm[s] = Stamp(npub)
            /\ semv[s] = 0

\* C8 as amended: the same, the second read blocking only on a platform other
\* than Darwin.
C8_LatestWinsSaturating ==
    \A s \in Subs :
        (Returning(s) /\ cpc[s] = "in" /\ quiet[s] /\ npub > sin[s] /\ last[s] < npub) =>
            /\ Returned(s) = Payload(npub) /\ rstm[s] = Stamp(npub)
            /\ system # "Darwin" => semv[s] = 0

C8_Witness ==
    \E s \in Subs : /\ Returning(s) /\ cpc[s] = "in" /\ quiet[s]
                    /\ sin[s] = 0 /\ npub = 2 /\ last[s] = -1 /\ system # "Darwin"

\* C9: a read of a signed-in subscriber returns only a publication that had
\* not completed when its signin returned: never the initial content of the
\* regions nor what was published before the signin.
C9_OnlyAfterSignin ==
    \A s \in Subs : (Returning(s) /\ cpc[s] = "in") =>
        (rstm[s] > sin[s] /\ \A i \in Cells : Returned(s)[i] > sin[s])

\* C10: a read never returns a publication older than the one the previous
\* read of the same subscriber returned.
C10_ReadsFollowOrder ==
    \A s \in Subs : (Returning(s) /\ last[s] >= 0) =>
        (rstm[s] >= last[s] /\ \A i \in Cells : Returned(s)[i] >= last[s])

C10_Witness ==
    \E s \in Subs : Returning(s) /\ last[s] = 1 /\ rstm[s] = 2

\* C11: a write with a payload of the wrong length fails (it never gets past
\* the copy into the frame region, and no publication completes), and the
\* step in which it fails leaves the frame region and the timestamp region
\* as they were.
C11_FailedWriteLeavesRegions ==
    /\ [](wpc \in {"ram2", "stm", "rel", "lock", "loop", "signal"} => Fits(ram, wdata))
    /\ [][(wpc = "ram1" /\ ~Fits(ram, wdata) /\ wpc' # wpc) =>
             (wpc' = "idle" /\ wdone' = wdone /\ ram' = ram /\ stm' = stm)]_vars

C11_Witness ==
    /\ wpc = "idle" /\ wdata \in WrongPayloads(2)
    /\ ram = Payload(1) /\ stm = ToBytes(Stamp(1))

\* C12: the frame semaphore is held only by a publisher inside write or by
\* the readers counted in; in particular it is free again after a write
\* that failed.
C12_FrameSemNotLeftHeld ==
    ram_sem = 0 => (WriterInside \/ cnt > 0)

\* The signout message of s was sent, and the listener has received it and
\* finished handling it.
SignoutProcessed(s) ==
    /\ cpc[s] = "closed" /\ ~rsems[s]
    /\ ~InSeq(Msg("signout", s), mq)
    /\ ~(lpc = "signout" /\ lmsg = s)

\* C13: once the listener has processed the signout message of a
\* subscriber, its id is not in the publisher's registry and no publish is
\* about to release its wake semaphore.
C13_SignoutRemoves ==
    \A s \in Subs : SignoutProcessed(s) =>
        (~InSeq(s, sems) /\ ~(wpc = "signal" /\ Head(wkeys) = s))

\* C14: the name of a wake semaphore is created and unlinked only by the
\* publisher's listener, handling the signin or signout of that id; no step
\* of a subscriber creates or unlinks it.
C14_PublisherOwnsWakeSems ==
    [][\A k \in Subs : (named'[k] # named[k]) =>
          (lmsg = k /\ lpc \in {"signin", "signout"} /\ lpc' # lpc)]_vars

\* C15: signout of an id that is not in the registry of the object it is
\* called on returns without an error and leaves the registries, every wake
\* semaphore (name and count) and the control channel as they were.
C15_UnknownSignoutIsNoOp ==
    /\ [][\A s \in Subs : (cpc[s] = "closed" /\ ~rsems[s] /\ cpc'[s] # cpc[s]) =>
             (cpc'[s] = "deleted" /\ UNCHANGED <<rsems, sems, named, semv, mq>>)]_vars
    /\ [][(lpc = "signout" /\ ~InSeq(lmsg, sems) /\ lpc' # lpc) =>
             (lpc' = "recv" /\ UNCHANGED <<rsems, sems, named, semv, mq>>)]_vars

C15_Witness ==
    \E s \in Subs : cpc[s] = "deleted" /\ ~rsems[s] /\ InSeq(s, sems) /\ semv[s] >= 1

\* C16: a read that waits for its wake semaphore after the semaphore's name
\* was unlinked is not left blocked: it has a step to take (the error
\* return).
C16_UnlinkedAcquireReturns ==
    \A s \in Subs : (pc[s] = "wake" /\ ~named[s]) => ENABLED Read(s)

\* C20: the listener handles the signout message of a subscriber, and such
\* a message is in flight, only after the listener has handled that
\* subscriber's signin (which put the id into the registry), whatever the
\* messages of other subscribers do.
C20_SigninBeforeSignout ==
    /\ lpc = "signout" => InSeq(lmsg, sems)
    /\ \A i \in 1..Len(mq) : mq[i].command = "signout" => InSeq(mq[i].r_id, sems)

C20_Witness ==
    /\ lpc = "signout" /\ lmsg = 1
    /\ InSeq(Msg("signin", 2), mq)

\* C17: _serialize succeeds for every shape of at most MaxRank positive
\* dimensions and every dtype, and _deserialize of the record it wrote gives
\* back that shape and dtype.
C17_MetadataRoundTrip ==
    /\ ppc # "raised"
    /\ ppc = "done" => (Parses(mat) /\ Deserialized(mat) = decl)

\* The text s stands in the region from position from on, right-padded with
\* '*' to the given width.
PaddedAt(region, from, width, s) ==
    /\ Len(s) <= width
    /\ SubSeq(region, from, from + Len(s) - 1) = s
    /\ \A i \in (from + Len(s))..(from + width - 1) : region[i] = "*"

\* C18: the record is 40 bytes: the shape string padded to width 21, one
\* '|', the dtype name padded to width 18.
C18_LayoutAsStated ==
    ppc = "done" =>
        /\ Len(mat) = 40
        /\ PaddedAt(mat, 1, 21, JoinX(decl.shape))
        /\ mat[22] = "|"
        /\ PaddedAt(mat, 23, 18, Name(decl.dtype))

\* C18 as amended: the record is 40 bytes: the shape string padded to width
\* 20, one '|', the dtype name padded to width 19.
C18_Layout ==
    ppc = "done" =>
        /\ Len(mat) = 40
        /\ PaddedAt(mat, 1, 20, JoinX(decl.shape))
        /\ mat[21] = "|"
        /\ PaddedAt(mat, 22, 19, Name(decl.dtype))

C18_Witness ==
    ppc = "done" /\ decl.shape = <<1000, 1000, 3>> /\ decl.dtype = "int16"

\* C19: a subscriber's construction reads the metadata region only after
\* the publisher has written it, and a construction that completes has read
\* the shape and dtype the publisher declared.
C19_MetadataDiscovery ==
    \A s \in Subs :
        /\ spc[s] \in {"done", "raised"} => ppc = "done"
        /\ spc[s] = "done" => got[s] = decl

\* C21: with fair scheduling every call of write comes to acquire the frame
\* semaphore, and every call that has acquired it comes to return.
C21_WriterLiveness ==
    /\ (wpc = "acq") ~> (wpc = "ram1")
    /\ (wpc = "ram1") ~> (wpc = "idle")

\* C22: after close the worker does not stay blocked in read: once the
\* subscriber's signout is done and the publisher is idle (nothing obliges it
\* to publish again), a worker inside read on the wake semaphore has a token
\* to take, so that it comes back to the loop test and stops.
C22_ClosedWorkerNotWaiting ==
    \A s \in Subs : (cpc[s] = "closed" /\ pc[s] = "wake" /\ wpc = "idle") => semv[s] > 0

\* C23: a close that is called on a signed-in subscriber goes on to send
\* the signout message of its id, and a close that was called returns
\* (signout has sent its message; the join gives up after its timeout),
\* whether or not the worker has stopped.
C23_CloseReturns ==
    /\ [][\A s \in Subs : (cpc[s] = "in" /\ cpc'[s] # "in") => cpc'[s] = "so_send"]_vars
    /\ [][\A s \in Subs : (cpc[s] = "so_send" /\ cpc'[s] # "so_send") =>
             (cpc'[s] = "closed" /\ mq' = Append(mq, Msg("signout", s)))]_vars
    /\ \A s \in Subs : (cpc[s] = "so_send") ~> (cpc[s] = "closed")

C23_Witness ==
    \E s \in Subs : system # "Darwin" /\ cpc[s] = "closed" /\ pc[s] = "wake" /\ semv[s] = 0

\* C24: between the return of one latest and the return of the next the
\* worker has appended at least one entry to the ring.
C24_LatestWakesOnNewData ==
    [][(upc = "ring" /\ upc' = "idle" /\ mark >= 0) => Len(hist) > mark]_vars

\* C25: latest returns, for a topic requested without buf, the entry (frame
\* and timestamp) the worker appended last, and for a topic requested with
\* buf > 0 the frames of the buf entries put into the ring last, the oldest
\* first.
C25_LatestReturnsRing ==
    [][(upc = "ring" /\ upc' = "idle") =>
          /\ Len(hist) > RingLen(buf)
          /\ ret' = IF buf = 0
                      THEN hist[Len(hist)]
                      ELSE [i \in 1..buf |-> hist[Len(hist) - buf + i].data]]_vars

C25_Witness ==
    /\ upc = "idle" /\ buf = 2 /\ ret = <<Payload(2), Payload(3)>>

\* The signin message of s is in flight or being handled.
SigninPending(s) == InSeq(Msg("signin", s), mq) \/ (lpc = "signin" /\ lmsg = s)

\* C26: a subscriber opening a wake semaphore that the publisher has not
\* created and is not going to create is not left polling: its control
\* thread has a step to take (the failure after the last poll).
C26_OpenTimesOut ==
    \A s \in Subs : (cpc[s] = "open" /\ ~named[s] /\ ~SigninPending(s)) => ENABLED Control(s)

\* C27: after the publisher's shutdown the listener loop has terminated and
\* no wake semaphore, no region semaphore and no region of the topic exists
\* any more.
C27_ShutdownUnlinks ==
    wpc = "terminated" =>
        /\ lpc = "stopped"
        /\ \A k \in Subs : ~named[k]
        /\ mat_sem = -1
        /\ mat = <<>>

\* Subscribers between the first step (the counter semaphore's acquire) and
\* the last step (its second release) of the reader protocol.
InProtocol == {s \in Subs : pc[s] \in {"ramacq", "exit"}}

\* C28: the reader counter is never negative; with no subscriber inside the
\* reader protocol it is 0, and if moreover the publisher is not inside
\* write's critical section the frame semaphore counts 1.
C28_CounterReturnsToZero ==
    /\ cnt >= 0
    /\ InProtocol = {} =>
          /\ cnt = 0
          /\ ~WriterInside => ram_sem = 1

\* C29: after the publisher's construction every region semaphore counts 1
\* and the reader counter is 0, whatever an earlier publisher left under
\* the same names.
C29_FreshAfterConstruction ==
    ppc = "done" => (ram_sem = 1 /\ cnt_sem = 1 /\ mat_sem = 1 /\ cnt = 0)

C29_Witness ==
    /\ ppc = "done"
    /\ left = [ram_sem |-> MaxStale, cnt_sem |-> 0, mat_sem |-> MaxStale, cnt |-> MaxStale]

\* C30: once subscriber-side signin has returned, the listener has handled
\* that signin and the semaphore the subscriber holds is the one the
\* publisher's registry holds for its id.
C30_SigninOpensRegistered ==
    \A s \in Subs : cpc[s] = "in" => (reg[s] >= 0 /\ hnd[s] = reg[s])

\* C31: write inspects and releases wake semaphores without holding the
\* registry mutex: the mutex is free at every check and release of the
\* fan-out.
C31_FanoutWithoutLock ==
    [][(wpc \in {"loop", "signal"} /\ wpc' # wpc) => sems_lock = "free"]_vars

\* C31 as amended: write takes the snapshot of the registry keys under the
\* registry mutex and keeps the mutex for the whole fan-out: it holds it at
\* every check and release, and gives it up when the loop has ended.
C31_FanoutUnderLock ==
    /\ [](wpc \in {"loop", "signal"} => sems_lock = "writer")
    /\ [][(wpc = "lock" /\ wpc' = "loop") => (sems_lock = "free" /\ wkeys' = sems)]_vars
    /\ [][(wpc = "signal" /\ wpc' # wpc) => (sems_lock' = "writer" /\ semv' # semv)]_vars
    /\ [][(wpc = "loop" /\ wpc' = "idle") => sems_lock' = "free"]_vars

C31_Witness ==
    wpc = "signal" /\ sems_lock = "writer" /\ lpc = "signin" /\ Len(wkeys) = 1 /\ Len(sems) = 1

C33_RingHoldsLastB ==
    /\ Len(res) = (IF buf # 0 THEN buf ELSE 10)
    /\ res = SubSeq(hist, Len(hist) - Len(res) + 1, Len(hist))
    /\ nread = 0 => \A i \in 1..Len(res) : res[i].data = Payload(0)

C33_Witness ==
    /\ buf = MaxBuf /\ Len(hist) = MaxBuf + MaxReads
    /\ res[Len(res)] = Frame(MaxReads)

\* C34: a read called after the subscriber's own signout has removed its id
\* from self.sems raises at once: it takes no semaphore and leaves the
\* reader counter alone, and the worker's loop ends there and stays ended.
C34_ReadAfterSignoutFails ==
    /\ [][\A s \in Subs : (pc[s] = "idle" /\ ~rsems[s] /\ pc'[s] # pc[s]) =>
             (pc'[s] = "stopped" /\ UNCHANGED <<semv, cnt, cnt_sem, ram_sem, sems_lock>>)]_vars
    /\ [][\A s \in Subs : pc[s] = "stopped" => pc'[s] = "stopped"]_vars

C34_Witness ==
    \E s \in Subs : pc[s] = "stopped" /\ cpc[s] = "closed" /\ semv[s] >= 1 /\ last[s] = -1

\* C35: no circular wait.  Whoever is blocked on the frame semaphore, the
\* counter semaphore or the registry mutex waits for a holder that can take
\* its next step: the writer at the frame semaphore waits for readers that
\* can leave, the first reader at the frame semaphore for a writer that
\* runs on, a reader at the counter semaphore for a first reader that can
\* go on or itself waits for such a writer, the
\* listener at the mutex for a writer in its fan-out, and the writer never
\* waits at the mutex.
C35_NoCircularWait ==
    /\ (wpc = "acq" /\ ~ENABLED WriteAcquire) => \E s \in Subs : ENABLED ReadExit(s)
    /\ \A s \in Subs : (pc[s] = "ramacq" /\ ~ENABLED ReadRamAcquire(s)) =>
           (WriterInside /\ ENABLED WriteOn)
    /\ \A s \in Subs : (pc[s] \in {"enter", "exit"} /\ ~ENABLED Read(s)) =>
           \E r \in Subs : /\ pc[r] = "ramacq"
                            /\ \/ ENABLED ReadRamAcquire(r)
                               \/ WriterInside /\ ENABLED WriteOn
    /\ wpc = "lock" => ENABLED WriteLock
    /\ (lpc \in {"signin", "signout"} /\ ~ENABLED Listener) =>
           (wpc \in {"loop", "signal"} /\ ENABLED WriteOn)

C35_Witness ==
    /\ \E s, r \in Subs : pc[s] = "ramacq" /\ pc[r] = "enter" /\ cnt_sem = 0
    /\ WriterInside /\ ram_sem = 0

\* C36: the frame semaphore and the counter semaphore are binary.  Each
\* has count 0 or 1 in every reachable state, and a reader that releases
\* the frame semaphore on its way out finds it at 0, whichever reader took it.
C36_BinarySemaphores ==
    /\ [](ram_sem \in {0, 1} /\ cnt_sem \in {0, 1})
    /\ [][ram_sem' > ram_sem => (ram_sem = 0 /\ ram_sem' = 1)]_vars
    /\ [][cnt_sem' > cnt_sem => (cnt_sem = 0 /\ cnt_sem' = 1)]_vars

C36_Witness ==
    \E s, r \in Subs :
        /\ pc[s] = "copy1" /\ pc[r] = "exit"
        /\ cnt = 1 /\ ram_sem = 0 /\ cnt_sem = 1 /\ ~WriterInside

\* C37: the publisher never sends on its own control channel.  The
\* listener's signout handler never reaches its comm.send: it never holds
\* the registry mutex in a send, and handling a signout leaves the queue as
\* it was and returns to the receive with the mutex free.
C37_ListenerNeverSends ==
    /\ [](lpc # "so_send" /\ sems_lock # "listener")
    /\ [][(lpc = "signout" /\ lpc' # lpc) =>
             (lpc' = "recv" /\ mq' = mq /\ sems_lock' = "free")]_vars

C37_Witness ==
    /\ lpc = "signout" /\ InSeq(lmsg, sems) /\ ~named[lmsg]
    /\ Len(mq) = MaxMessages /\ sems_lock = "free"

\* C38: the timestamp region is co-mutated with the frame region.  Whenever
\* no write is between its acquire and its release, the frame region holds
\* the payload published with the timestamp in the timestamp region; a
\* publish that fails leaves both as they were.
C38_StampFollowsFrame ==
    ~WriterInside => ram = Payload(FromBytes(stm))

\* C39: Client.close is idempotent.  The first close leaves the id out of
\* the subscriber's registry and its semaphore's name unlinked; a second
\* close then sends no message, unlinks nothing and leaves the registry,
\* the handle and the publisher's side as they were.
C39_SecondCloseIsNoOp ==
    /\ [](\A s \in Subs : cpc[s] \in {"closed", "deleted"} => (~rsems[s] /\ ~named[s]))
    /\ [][\A s \in Subs : (cpc[s] = "closed" /\ cpc'[s] # cpc[s]) =>
             (cpc'[s] = "deleted" /\ UNCHANGED <<mq, named, rsems, hnd, semv, sems>>)]_vars

C39_Witness ==
    /\ \A s \in Subs : cpc[s] = "deleted" /\ ~rsems[s] /\ ~named[s]
    /\ mq = <<>> /\ lpc = "recv"

====
